---- MODULE Spec2Model ----
(***************************************************************************)
(* A model of app/main.ts: the per-connection request parser that runs in  *)
(* the socket 'data' callback, the connection driver that validates the    *)
(* request line, builds the Request, awaits the handler and serializes the *)
(* Response, the handler's routes, and the file system the /files/ routes  *)
(* read and write.                                                         *)
(*                                                                         *)
(* Strings are TLA+ strings (sequences of characters); positions are       *)
(* 0-based as in JavaScript.  All bytes on the wire are ASCII, so one byte *)
(* is one UTF-16 code unit of the decoded string.                          *)
(***************************************************************************)
EXTENDS Integers, Sequences, FiniteSets, TLC

(***************************************************************************)
(* Bounds of the model.                                                    *)
(***************************************************************************)
\* Content-Length values 0..MaxContentLength are declared by the clients.
MaxContentLength == 2

(***************************************************************************)
(* JavaScript values and string primitives.                                *)
(***************************************************************************)
\* `undefined` and a defined value v, for variables typed `T | undefined`.
Undefined == <<>>
Some(v) == <<v>>

Min(S) == CHOOSE x \in S : \A y \in S : x <= y

\* `const x = v` followed by F(x): v is evaluated once
Bind(v, F(_)) == CHOOSE r \in {F(x) : x \in {v}} : TRUE

\* s.charAt(i)
CharAt(s, i) == SubSeq(s, i + 1, i + 1)

\* s.slice(from, to) for 0 <= from, 0 <= to
Slice(s, from, to) == SubSeq(s, from + 1, IF to > Len(s) THEN Len(s) ELSE to)

\* s.slice(from)
SliceFrom(s, from) == SubSeq(s, from + 1, Len(s))

\* s.indexOf(pat, from): the first position >= from where pat occurs, or -1
RECURSIVE IndexOf(_, _, _)
IndexOf(s, pat, from) ==
    IF from + Len(pat) > Len(s) THEN -1
    ELSE IF SubSeq(s, from + 1, from + Len(pat)) = pat THEN from
    ELSE IndexOf(s, pat, from + 1)

\* s.includes(pat)
Includes(s, pat) == IndexOf(s, pat, 0) # -1

\* s.startsWith(pat)
StartsWith(s, pat) == Len(s) >= Len(pat) /\ SubSeq(s, 1, Len(pat)) = pat

\* s.split(sep) for a non-empty separator: cut at every occurrence
RECURSIVE Split(_, _)
Split(s, sep) ==
    LET i == IndexOf(s, sep, 0)
    IN  IF i = -1 THEN <<s>>
        ELSE <<Slice(s, 0, i)>> \o Split(SliceFrom(s, i + Len(sep)), sep)

\* const [a, b] = parts: the element at 0-based index i, or undefined
Destructure(parts, i) == IF i + 1 <= Len(parts) THEN Some(parts[i + 1]) ELSE Undefined

UpperCase == "ABCDEFGHIJKLMNOPQRSTUVWXYZ"
LowerCase == "abcdefghijklmnopqrstuvwxyz"

\* one character of s.toLowerCase()
LowerChar(ch) ==
    LET i == IndexOf(UpperCase, ch, 0)
    IN  IF Len(ch) = 1 /\ i # -1 THEN CharAt(LowerCase, i) ELSE ch

\* s.toLowerCase()
RECURSIVE ToLowerCase(_)
ToLowerCase(s) ==
    IF s = "" THEN "" ELSE LowerChar(CharAt(s, 0)) \o ToLowerCase(SliceFrom(s, 1))

DigitChars == "0123456789"
IsDigit(ch) == Len(ch) = 1 /\ IndexOf(DigitChars, ch, 0) # -1
IsWhiteSpace(ch) == ch \in {" ", "\t", "\r", "\n"}

\* the value of the longest prefix of decimal digits of s, continuing from acc
RECURSIVE DigitsValue(_, _)
DigitsValue(s, acc) ==
    IF s # "" /\ IsDigit(CharAt(s, 0))
    THEN DigitsValue(SliceFrom(s, 1), acc * 10 + IndexOf(DigitChars, CharAt(s, 0), 0))
    ELSE acc

RECURSIVE TrimStart(_)
TrimStart(s) == IF s # "" /\ IsWhiteSpace(CharAt(s, 0)) THEN TrimStart(SliceFrom(s, 1)) ELSE s

\* a JavaScript number: NaN or an integer
NaN == [nan |-> TRUE, n |-> 0]
Num(n) == [nan |-> FALSE, n |-> n]

\* parseInt(v, 10): v is a string or undefined (which converts to "undefined");
\* leading white space is skipped, a sign is accepted, the digits that follow
\* are read and whatever comes after them is ignored; no digit gives NaN
ParseInt(v) ==
    LET s == IF v = Undefined THEN "undefined" ELSE TrimStart(v[1])
        neg == s # "" /\ CharAt(s, 0) = "-"
        t == IF s # "" /\ CharAt(s, 0) \in {"-", "+"} THEN SliceFrom(s, 1) ELSE s
    IN  IF t = "" \/ ~IsDigit(CharAt(t, 0)) THEN NaN
        ELSE Num(IF neg THEN 0 - DigitsValue(t, 0) ELSE DigitsValue(t, 0))

\* String(n) for an integer n >= 0
RECURSIVE NumToString(_)
NumToString(n) ==
    IF n < 10 THEN CharAt(DigitChars, n)
    ELSE NumToString(n \div 10) \o CharAt(DigitChars, n % 10)

(***************************************************************************)
(* The state.                                                              *)
(***************************************************************************)
\* The connections of one run of the server.
Conns == {1, 2, 3}

VARIABLES
    wire,          \* wire[c]: every byte the client of c sends, in order
    segmentation,  \* segmentation[c]: "any" when the bytes of c may reach the
                   \* 'data' callback cut anywhere, "whole" when they arrive
                   \* as one chunk
    after,         \* after[c]: the connection whose closing the client of c
                   \* waits for before it sends anything, or 0
    parser,        \* parser[c]: the variables the 'data' callback of c closes over
    running,       \* the connection whose 'data' callback is executing its
                   \* loop, or 0: JavaScript runs one callback at a time
    parsedRequest, \* parsedRequest[c]: the value the promise of c was resolved with
    pc,            \* pc[c]: where the connection callback of c is suspended
    req,           \* req[c]: the Request handed to the handler
    res,           \* res[c]: the Response the handler returned
    out,           \* out[c]: the bytes written to the socket of c
    ended,         \* ended[c]: socket.end() was called
    fs,            \* the regular files of tmpDir: file name -> content
    sinks          \* the file writers whose buffered write is not flushed yet

vars == <<wire, segmentation, after, parser, running, parsedRequest, pc, req, res, out,
          ended, fs, sinks>>

(***************************************************************************)
(* The request parser: the 'data' callback of a connection.                *)
(***************************************************************************)
\* the variables declared before socket.on('data')
ParserInit ==
    [data |-> "", cursor |-> 0, head |-> Undefined, rawHeaders |-> <<>>,
     contentLength |-> Undefined, body |-> "", endOfHeaders |-> FALSE]

\* the header branch of the loop body: record the line, detect Content-Length
HeaderLine(p, line) ==
    Bind(Split(line, ": "), LAMBDA parts :
        [p EXCEPT !.rawHeaders = Append(@, line),
                  !.contentLength = IF ToLowerCase(parts[1]) = "content-length"
                                    THEN Some(ParseInt(Destructure(parts, 1))) ELSE @])

\* the line branch of the loop body: a CR LF was found at position end
ConsumeLine(p, end) ==
    Bind(Slice(p.data, p.cursor, end), LAMBDA line :
        LET q == [p EXCEPT !.cursor = end + 2]
        IN  IF q.head = Undefined THEN [q EXCEPT !.head = Some(line)]
            ELSE IF ~q.endOfHeaders
                 THEN IF line = "" THEN [q EXCEPT !.endOfHeaders = TRUE]
                      ELSE HeaderLine(q, line)
            ELSE [q EXCEPT !.body = @ \o line])

\* one pass through the body of `while (cursor < data.length)`, up to the
\* completion test
LoopBody(p) ==
    Bind(IndexOf(p.data, "\r\n", p.cursor), LAMBDA end :
        IF end = -1
        THEN IF p.endOfHeaders THEN [p EXCEPT !.body = SliceFrom(p.data, p.cursor)] ELSE p
        ELSE ConsumeLine(p, end))

\* IsComplete with the completion test reduced to its first operand: the
\* promise is resolved as soon as the request line has been read
IsCompleteAtHead(p) == p.head # Undefined

\* the completion test at the end of the loop body; a comparison with NaN is false
IsComplete(p) ==
    /\ p.head # Undefined
    /\ IF p.contentLength = Undefined THEN p.endOfHeaders
       ELSE /\ ~p.contentLength[1].nan
            /\ Len(p.body) >= p.contentLength[1].n

\* the argument of resolve()
Resolution(p) == [head |-> p.head[1], rawHeaders |-> p.rawHeaders, body |-> p.body]

\* an idle moment of the event loop: no callback is executing and no
\* continuation of a resolved promise is queued
MicrotaskPending == \E c \in Conns : parsedRequest[c] # Undefined /\ pc[c] = "parse"
Idle == running = 0 /\ ~MicrotaskPending

\* the client's bytes that have not reached the 'data' callback yet
Unread(c) == SliceFrom(wire[c], Len(parser[c].data))

\* the sizes the next chunk of c can have
ChunkSizes(c) ==
    IF segmentation[c] = "whole" THEN {Len(Unread(c))} \ {0} ELSE 1..Len(Unread(c))

\* a 'data' event: the callback appends the chunk and enters its loop
OnData(c) ==
    /\ Idle
    /\ IF after[c] = 0 THEN TRUE ELSE ended[after[c]]
    /\ \E k \in ChunkSizes(c) :
          parser' = [parser EXCEPT ![c].data = @ \o Slice(Unread(c), 0, k)]
    /\ running' = c
    /\ UNCHANGED <<wire, segmentation, after, parsedRequest, pc, req, res, out, ended, fs, sinks>>

\* one evaluation of the loop condition and, when it holds, of the loop body:
\* the callback returns when the condition fails or when the request is
\* complete (resolve() keeps the value of its first call only)
LoopStep(c) ==
    /\ running = c
    /\ IF parser[c].cursor < Len(parser[c].data)
       THEN \E p \in {LoopBody(parser[c])} :
               /\ parser' = [parser EXCEPT ![c] = p]
               /\ IF IsComplete(p)
                  THEN /\ parsedRequest' =
                             IF parsedRequest[c] = Undefined
                             THEN [parsedRequest EXCEPT ![c] = Some(Resolution(p))]
                             ELSE parsedRequest
                       /\ running' = 0
                  ELSE UNCHANGED <<parsedRequest, running>>
       ELSE /\ running' = 0
            /\ UNCHANGED <<parser, parsedRequest>>
    /\ UNCHANGED <<wire, segmentation, after, pc, req, res, out, ended, fs, sinks>>

(***************************************************************************)
(* new URL(`http://${socket.localAddress}:${socket.localPort}${requestPath}`)*)
(* and its pathname, for request paths over printable ASCII without "@"    *)
(* and without the grave accent.                                           *)
(***************************************************************************)
RECURSIVE RemoveTabNewline(_)
RemoveTabNewline(s) ==
    IF s = "" THEN ""
    ELSE (IF CharAt(s, 0) \in {"\t", "\r", "\n"} THEN "" ELSE CharAt(s, 0))
         \o RemoveTabNewline(SliceFrom(s, 1))

\* the first position of s that holds one of the characters of set, or Len(s)
FirstOf(s, set) == Min({i \in 0..Len(s) : i = Len(s) \/ CharAt(s, i) \in set})

RECURSIVE AllDigits(_)
AllDigits(s) == s = "" \/ (IsDigit(CharAt(s, 0)) /\ AllDigits(SliceFrom(s, 1)))

\* in the URL of a special scheme a backslash is a path separator
RECURSIVE BackslashToSlash(_)
BackslashToSlash(s) ==
    IF s = "" THEN ""
    ELSE (IF CharAt(s, 0) = "\\" THEN "/" ELSE CharAt(s, 0)) \o BackslashToSlash(SliceFrom(s, 1))

IsSingleDot(seg) == ToLowerCase(seg) \in {".", "%2e"}
IsDoubleDot(seg) == ToLowerCase(seg) \in {"..", ".%2e", "%2e.", "%2e%2e"}

\* the path percent-encode set, within printable ASCII
PercentEncodeChar(ch) ==
    CASE ch = "\"" -> "%22"
      [] ch = "<" -> "%3C"
      [] ch = ">" -> "%3E"
      [] ch = "{" -> "%7B"
      [] ch = "}" -> "%7D"
      [] OTHER -> ch

RECURSIVE PercentEncode(_)
PercentEncode(s) ==
    IF s = "" THEN "" ELSE PercentEncodeChar(CharAt(s, 0)) \o PercentEncode(SliceFrom(s, 1))

\* the URL parser's path state: dot segments are resolved, the others kept
RECURSIVE PathSegments(_, _)
PathSegments(segs, path) ==
    IF segs = <<>> THEN path
    ELSE LET seg == Head(segs)
             last == Len(segs) = 1
             shortened == IF path = <<>> THEN path ELSE SubSeq(path, 1, Len(path) - 1)
         IN  IF IsDoubleDot(seg)
             THEN PathSegments(Tail(segs), IF last THEN Append(shortened, "") ELSE shortened)
             ELSE IF IsSingleDot(seg)
             THEN PathSegments(Tail(segs), IF last THEN Append(path, "") ELSE path)
             ELSE PathSegments(Tail(segs), Append(path, PercentEncode(seg)))

RECURSIVE JoinPath(_)
JoinPath(path) == IF path = <<>> THEN "" ELSE "/" \o Head(path) \o JoinPath(Tail(path))

\* url.pathname, or undefined when new URL() throws: what precedes the first
\* separator of requestPath continues the port number 4221
URLPathname(requestPath) ==
    LET s == RemoveTabNewline(requestPath)
        authorityEnd == FirstOf(s, {"/", "\\", "?", "#"})
        port == "4221" \o Slice(s, 0, authorityEnd)
        rest == SliceFrom(s, authorityEnd)
        pathPart == BackslashToSlash(Slice(rest, 0, FirstOf(rest, {"?", "#"})))
    IN  IF ~AllDigits(port) \/ DigitsValue(port, 0) > 65535 THEN Undefined
        ELSE IF pathPart = "" THEN Some("/")
        ELSE Some(JoinPath(PathSegments(Tail(Split(pathPart, "/")), <<>>)))

(***************************************************************************)
(* Headers, Request and Response of the runtime.                           *)
(***************************************************************************)
EmptyHeaders == [name \in {} |-> ""]

TokenChars == LowerCase \o UpperCase \o DigitChars \o "!#$%&'*+-.^_|~"

RECURSIVE IsToken(_)
IsToken(s) == s = "" \/ (IndexOf(TokenChars, CharAt(s, 0), 0) # -1 /\ IsToken(SliceFrom(s, 1)))

RECURSIVE TrimEnd(_)
TrimEnd(s) ==
    IF s # "" /\ IsWhiteSpace(CharAt(s, Len(s) - 1)) THEN TrimEnd(Slice(s, 0, Len(s) - 1)) ELSE s

\* the value Headers stores: white space is stripped at both ends
NormalizeValue(v) == TrimEnd(TrimStart(v))

\* headers.set(key, value); undefined when it throws (the name is no token,
\* or the stored value holds a CR or an LF); names compare case-insensitively
HeadersSet(headers, key, value) ==
    LET v == NormalizeValue(IF value = Undefined THEN "undefined" ELSE value[1])
    IN  IF key = "" \/ ~IsToken(key) \/ Includes(v, "\r") \/ Includes(v, "\n") THEN Undefined
        ELSE Some([name \in DOMAIN headers \cup {ToLowerCase(key)} |->
                      IF name = ToLowerCase(key) THEN v ELSE headers[name]])

\* headers.get(name): the value, or null (here undefined)
HeadersGet(headers, name) ==
    IF ToLowerCase(name) \in DOMAIN headers THEN Some(headers[ToLowerCase(name)]) ELSE Undefined

\* the loop over rawHeaders that fills requestHeaders; undefined when a set throws
RECURSIVE RequestHeaders(_, _)
RequestHeaders(rawHeaders, headers) ==
    IF rawHeaders = <<>> THEN Some(headers)
    ELSE LET parts == Split(Head(rawHeaders), ": ")
             next == HeadersSet(headers, parts[1], Destructure(parts, 1))
         IN  IF next = Undefined THEN Undefined
             ELSE RequestHeaders(Tail(rawHeaders), next[1])

\* new Response(body, { status, headers }): a string body brings its own
\* Content-Type unless the init headers name one; a byte body brings none
NewResponse(body, isString, status, headers) ==
    [status |-> status,
     headers |-> IF isString /\ "content-type" \notin DOMAIN headers
                 THEN [name \in DOMAIN headers \cup {"content-type"} |->
                          IF name = "content-type" THEN "text/plain;charset=utf-8"
                          ELSE headers[name]]
                 ELSE headers,
     body |-> body]

\* Bun.gzipSync(text): the bytes of a gzip member holding text, written as
\* header, payload, trailer; a function of text that never equals text
GzipSync(text) == "<gzip>" \o text \o "</gzip>"

(***************************************************************************)
(* The handler, up to its first file operation.                            *)
(***************************************************************************)
\* `return response`
Return(response) == [kind |-> "return", response |-> response]

\* FilesRoute with the forward-slash test left out
FilesRouteBackslashOnly(r, op) ==
    LET filename == SliceFrom(r.pathname, Len("/files/"))
    IN  IF Includes(filename, "\\")
        THEN Return(NewResponse("", TRUE, 404, EmptyHeaders))
        ELSE [kind |-> op, filename |-> filename]

\* FilesRoute that answers a name with a separator 403
FilesRouteForbidden(r, op) ==
    LET filename == SliceFrom(r.pathname, Len("/files/"))
    IN  IF Includes(filename, "/") \/ Includes(filename, "\\")
        THEN Return(NewResponse("", TRUE, 403, EmptyHeaders))
        ELSE [kind |-> op, filename |-> filename]

\* the two /files/ routes after the method and prefix tests: a name with a
\* separator is answered 404, any other name goes to the file operation op
FilesRoute(r, op) ==
    LET filename == SliceFrom(r.pathname, Len("/files/"))
    IN  IF Includes(filename, "/") \/ Includes(filename, "\\")
        THEN Return(NewResponse("", TRUE, 404, EmptyHeaders))
        ELSE [kind |-> op, filename |-> filename]

\* EchoRoute with the test `acceptEncoding.includes("gzip")`
EchoRouteContainsGzip(r) ==
    LET text == SliceFrom(r.pathname, Len("/echo/"))
        acceptEncoding == HeadersGet(r.headers, "Accept-Encoding")
    IN  IF acceptEncoding # Undefined /\ Includes(acceptEncoding[1], "gzip")
        THEN Return(NewResponse(GzipSync(text), FALSE, 200,
                                [name \in {"content-encoding"} |-> "gzip"]))
        ELSE Return(NewResponse(text, TRUE, 200, EmptyHeaders))

\* the /echo/ route
EchoRoute(r) ==
    LET text == SliceFrom(r.pathname, Len("/echo/"))
        acceptEncoding == HeadersGet(r.headers, "Accept-Encoding")
    IN  IF acceptEncoding = Some("gzip")
        THEN Return(NewResponse(GzipSync(text), FALSE, 200,
                                [name \in {"content-encoding"} |-> acceptEncoding[1]]))
        ELSE Return(NewResponse(text, TRUE, 200, EmptyHeaders))

\* the /user-agent route: `userAgent || ""`
UserAgentRoute(r) ==
    LET userAgent == HeadersGet(r.headers, "User-Agent")
    IN  Return(NewResponse(IF userAgent = Undefined THEN "" ELSE userAgent[1],
                           TRUE, 200, EmptyHeaders))

\* Handler with the routes /, /echo/ and /user-agent tested for GET
HandlerGetOnly(r) ==
    IF r.method # "GET" /\ r.method # "POST"
    THEN Return(NewResponse("", TRUE, 405, EmptyHeaders))
    ELSE IF r.method = "GET" /\ r.pathname = "/"
    THEN Return(NewResponse("", TRUE, 200, EmptyHeaders))
    ELSE IF r.method = "GET" /\ StartsWith(r.pathname, "/echo/") THEN EchoRoute(r)
    ELSE IF r.method = "GET" /\ r.pathname = "/user-agent" THEN UserAgentRoute(r)
    ELSE IF r.method = "GET" /\ StartsWith(r.pathname, "/files/") THEN FilesRoute(r, "exists")
    ELSE IF r.method = "POST" /\ StartsWith(r.pathname, "/files/") THEN FilesRoute(r, "write")
    ELSE Return(NewResponse("", TRUE, 404, EmptyHeaders))

\* Handler with the method test placed after the path tests
HandlerPathFirst(r) ==
    IF r.pathname = "/" THEN Return(NewResponse("", TRUE, 200, EmptyHeaders))
    ELSE IF StartsWith(r.pathname, "/echo/") THEN EchoRoute(r)
    ELSE IF r.pathname = "/user-agent" THEN UserAgentRoute(r)
    ELSE IF r.method = "GET" /\ StartsWith(r.pathname, "/files/") THEN FilesRoute(r, "exists")
    ELSE IF r.method = "POST" /\ StartsWith(r.pathname, "/files/") THEN FilesRoute(r, "write")
    ELSE IF r.method # "GET" /\ r.method # "POST"
    THEN Return(NewResponse("", TRUE, 405, EmptyHeaders))
    ELSE Return(NewResponse("", TRUE, 404, EmptyHeaders))

\* handler(req): the response it returns, or the file operation it awaits
Handler(r) ==
    IF r.method # "GET" /\ r.method # "POST"
    THEN Return(NewResponse("", TRUE, 405, EmptyHeaders))
    ELSE IF r.pathname = "/" THEN Return(NewResponse("", TRUE, 200, EmptyHeaders))
    ELSE IF StartsWith(r.pathname, "/echo/") THEN EchoRoute(r)
    ELSE IF r.pathname = "/user-agent" THEN UserAgentRoute(r)
    ELSE IF r.method = "GET" /\ StartsWith(r.pathname, "/files/") THEN FilesRoute(r, "exists")
    ELSE IF r.method = "POST" /\ StartsWith(r.pathname, "/files/") THEN FilesRoute(r, "write")
    ELSE Return(NewResponse("", TRUE, 404, EmptyHeaders))

(***************************************************************************)
(* The response serializer and the connection driver.                      *)
(***************************************************************************)
StatusTextByCode(code) ==
    CASE code = 200 -> "OK"
      [] code = 201 -> "Created"
      [] code = 404 -> "Not Found"
      [] OTHER -> ""

\* the two defaults set on res.headers before serializing
WithDefaults(response) ==
    LET h1 == IF "content-type" \in DOMAIN response.headers THEN response.headers
              ELSE [name \in DOMAIN response.headers \cup {"content-type"} |->
                       IF name = "content-type" THEN "text/plain" ELSE response.headers[name]]
        h2 == IF "content-length" \in DOMAIN h1 THEN h1
              ELSE [name \in DOMAIN h1 \cup {"content-length"} |->
                       IF name = "content-length" THEN NumToString(Len(response.body))
                       ELSE h1[name]]
    IN  [response EXCEPT !.headers = h2]

\* res.headers.entries() lists the headers by name
HeaderOrder == <<"content-encoding", "content-length", "content-type">>

RECURSIVE HeaderBlock(_, _)
HeaderBlock(headers, names) ==
    IF names = <<>> THEN ""
    ELSE (IF Head(names) \in DOMAIN headers
          THEN Head(names) \o ": " \o headers[Head(names)] \o "\r\n" ELSE "")
         \o HeaderBlock(headers, Tail(names))

\* the two socket.write calls of a handled request
Serialize(httpVersion, response) ==
    httpVersion \o " " \o NumToString(response.status) \o " "
        \o StatusTextByCode(response.status) \o "\r\n"
        \o HeaderBlock(response.headers, HeaderOrder) \o "\r\n" \o response.body

\* from `const res = await handler(req)` on: serialize, write, end
Respond(c, response) ==
    \E final \in {WithDefaults(response)} :
        /\ res' = [res EXCEPT ![c] = Some(final)]
        /\ out' = [out EXCEPT ![c] = @ \o Serialize("HTTP/1.1", final)]
        /\ ended' = [ended EXCEPT ![c] = TRUE]
        /\ pc' = [pc EXCEPT ![c] = "closed"]

\* a transport-level rejection: one socket.write, socket.end(), return
Reject(c, statusLine) ==
    /\ out' = [out EXCEPT ![c] = @ \o statusLine \o "\r\n\r\n"]
    /\ ended' = [ended EXCEPT ![c] = TRUE]
    /\ pc' = [pc EXCEPT ![c] = "closed"]
    /\ UNCHANGED <<req, res, fs, sinks>>

\* an exception in the connection callback: the promise it returned is
\* rejected, nothing is written and the socket is not ended
Throw(c) ==
    /\ pc' = [pc EXCEPT ![c] = "fault"]
    /\ UNCHANGED <<req, res, out, ended, fs, sinks>>

\* AllowedMethods with the handler's list in place of the transport's
AllowedMethodsOfHandler == {"GET", "POST"}

AllowedMethods == {"GET", "POST", "PUT", "DELETE"}

\* file.writer() opens the file for writing, creating or truncating it;
\* write() leaves the bytes in the writer's buffer, and the handler neither
\* flushes nor ends the writer before it returns 201
WriteFile(c, filename, postBody) ==
    /\ fs' = [name \in DOMAIN fs \cup {filename} |-> IF name = filename THEN "" ELSE fs[name]]
    /\ sinks' = sinks \cup {[conn |-> c, filename |-> filename, buffer |-> postBody]}

\* RequestLine with a missing version taken to be HTTP/1.1
RequestLineDefaultVersion(head) ==
    LET tokens == Split(head, " ")
    IN  [method |-> tokens[1], requestPath |-> Destructure(tokens, 1),
         httpVersion |-> IF Len(tokens) < 3 THEN Some("HTTP/1.1") ELSE Some(tokens[3])]

\* the request line cut at its spaces: method, requestPath and httpVersion
\* are the first three pieces, undefined where there are fewer
RequestLine(head) ==
    LET tokens == Split(head, " ")
    IN  [method |-> tokens[1], requestPath |-> Destructure(tokens, 1),
         httpVersion |-> Destructure(tokens, 2)]

\* new URL(...), new Headers() filled from rawHeaders, new Request(...);
\* undefined when one of the constructors throws
NewRequest(line, parsed) ==
    LET pathname == URLPathname(IF line.requestPath = Undefined THEN "undefined"
                                ELSE line.requestPath[1])
        requestHeaders == RequestHeaders(parsed.rawHeaders, EmptyHeaders)
    IN  IF pathname = Undefined \/ requestHeaders = Undefined THEN Undefined
        ELSE Some([method |-> line.method, pathname |-> pathname[1],
                   headers |-> requestHeaders[1], body |-> parsed.body])

\* from `const res = await handler(req)` on, for the request of c
Handle(c, request) ==
    /\ req' = [req EXCEPT ![c] = Some(request)]
    /\ \E result \in {Handler(request)} :
          IF result.kind = "return"
          THEN Respond(c, result.response) /\ UNCHANGED <<fs, sinks>>
          ELSE IF result.kind = "exists"
          THEN /\ pc' = [pc EXCEPT ![c] = "exists"]
               /\ UNCHANGED <<res, out, ended, fs, sinks>>
          ELSE /\ WriteFile(c, result.filename, request.body)
               /\ Respond(c, NewResponse("", TRUE, 201, EmptyHeaders))

\* the continuation of `await new Promise(...)`: validation of the request
\* line, construction of the Request, and the handler up to its first file
\* operation.  (Each value is bound once, where the code assigns it.)
Driver(c) ==
    /\ running = 0
    /\ pc[c] = "parse"
    /\ parsedRequest[c] # Undefined
    /\ \E line \in {RequestLine(parsedRequest[c][1].head)} :
          IF line.method \notin AllowedMethods
          THEN Reject(c, "HTTP/1.1 405 Method Not Allowed")
          ELSE IF line.httpVersion # Some("HTTP/1.1")
          THEN Reject(c, "HTTP/1.1 505 HTTP Version Not Supported")
          ELSE \E request \in {NewRequest(line, parsedRequest[c][1])} :
                  IF request = Undefined THEN Throw(c) ELSE Handle(c, request[1])
    /\ UNCHANGED <<wire, segmentation, after, parser, running, parsedRequest>>

\* the name of the file a suspended GET /files/ request asked for
Filename(c) == SliceFrom(req[c][1].pathname, Len("/files/"))

\* `await file.exists()` completes: 404 when there is no such file, else
\* the handler goes on to read it
ExistsDone(c) ==
    /\ Idle
    /\ pc[c] = "exists"
    /\ IF Filename(c) \in DOMAIN fs
       THEN /\ pc' = [pc EXCEPT ![c] = "text"]
            /\ UNCHANGED <<res, out, ended>>
       ELSE Respond(c, NewResponse("", TRUE, 404, EmptyHeaders))
    /\ UNCHANGED <<wire, segmentation, after, parser, running, parsedRequest, req, fs, sinks>>

\* `await file.text()` completes: the content goes out as the body
TextDone(c) ==
    /\ Idle
    /\ pc[c] = "text"
    /\ Respond(c, NewResponse(fs[Filename(c)], TRUE, 200,
                              [name \in {"content-type"} |-> "application/octet-stream"]))
    /\ UNCHANGED <<wire, segmentation, after, parser, running, parsedRequest, req, fs, sinks>>

\* the runtime flushes a writer's buffer: the bytes go to the start of the
\* file, which the writer opened at offset 0
Flush(sink) ==
    /\ Idle
    /\ sink \in sinks
    /\ fs' = [fs EXCEPT ![sink.filename] = sink.buffer \o SliceFrom(@, Len(sink.buffer))]
    /\ sinks' = sinks \ {sink}
    /\ UNCHANGED <<wire, segmentation, after, parser, running, parsedRequest, pc, req, res, out, ended>>

Next ==
    \/ \E c \in Conns : OnData(c)
    \/ \E c \in Conns : LoopStep(c)
    \/ \E c \in Conns : Driver(c)
    \/ \E c \in Conns : ExistsDone(c)
    \/ \E c \in Conns : TextDone(c)
    \/ \E sink \in sinks : Flush(sink)

(***************************************************************************)
(* The clients: the byte sequences they send.                              *)
(***************************************************************************)
RECURSIVE Lines(_)
Lines(lines) == IF lines = <<>> THEN "" ELSE Head(lines) \o "\r\n" \o Lines(Tail(lines))

\* a request as a client writes it
RequestBytes(method, path, version, headerLines, body) ==
    method \o " " \o path \o " " \o version \o "\r\n" \o Lines(headerLines) \o "\r\n" \o body

\* bodies are made of at most MaxBodyUnits of these pieces
MaxBodyUnits == 2
BodyUnits == {"a", "b", "\r\n"}

RECURSIVE BodiesOf(_)
BodiesOf(n) ==
    IF n = 0 THEN {""} ELSE {""} \cup {u \o b : u \in BodyUnits, b \in BodiesOf(n - 1)}

Bodies == BodiesOf(MaxBodyUnits)

ContentLengthLine(n) == "Content-Length: " \o NumToString(n)

\* requests with a Content-Length, followed by as many bytes, fewer or more
LengthRequests ==
    {RequestBytes("POST", "/files/x", "HTTP/1.1", <<ContentLengthLine(n)>>, b) :
        n \in 0..MaxContentLength, b \in Bodies}

\* requests without a Content-Length, followed by nothing or by more bytes
PlainRequests == {RequestBytes("GET", "/", "HTTP/1.1", <<>>, b) : b \in Bodies}

\* the requests whose bytes are exactly one request: the declared number of
\* body bytes, or no Content-Length and no body
CompleteRequests ==
    {RequestBytes("POST", "/files/x", "HTTP/1.1", <<ContentLengthLine(Len(b))>>, b) :
        b \in {b \in Bodies : Len(b) <= MaxContentLength}}
    \cup {RequestBytes("GET", "/", "HTTP/1.1", <<>>, "")}

\* clients that stop before the end of the request
PartialRequests ==
    {"PATCH / HTTP/1.1\r\n", "GET / HTTP/1.0\r\n", "GET / HTTP/1.1\r\n",
     "GET / HTTP/1.1\r\nUser-Agent: u\r\n", "GET / HT",
     "POST /files/x HTTP/1.1\r\nContent-Length: 2\r\n\r\na"}

\* other shapes of the header section and of the request line
OddRequests ==
    {RequestBytes("PATCH", "/x", "HTTP/1.0", <<ContentLengthLine(1)>>, "a"),
     RequestBytes("GET", "/user-agent", "HTTP/1.1", <<ContentLengthLine(0), "User-Agent: u">>, ""),
     RequestBytes("POST", "/files/x", "HTTP/1.1", <<"content-length: 1">>, "a"),
     RequestBytes("POST", "/files/x", "HTTP/1.1", <<"Content-Length: x">>, "a"),
     RequestBytes("GET", "/user-agent", "HTTP/1.1", <<"User-Agent: a: b">>, ""),
     "GET /\r\n\r\n", "\r\n\r\n", "GET / HTTP/1.1 x\r\n\r\n",
     "GET\r\n\r\n", "PATCH /\r\n\r\n", "PATCH\r\n\r\n", "PUT /\r\n\r\n",
     "GET / HTTP/1.1\r\n\r\nGET / HTTP/1.1\r\n\r\n"}

ParserWires == LengthRequests \cup PlainRequests \cup PartialRequests \cup OddRequests

\* requests that exercise the routes
RouteMethods == {"GET", "POST", "PUT", "DELETE", "PATCH", "get"}
RoutePaths ==
    {"/", "/echo/ab", "/echo", "/user-agent", "/files/x", "/files/y", "/files/a/x",
     "/files/a\\x", "/files/a/../x", "/nope", "x"}
RouteVersions == {"HTTP/1.1", "HTTP/1.0"}
RouteHeaders ==
    {<<>>, <<"User-Agent: u">>, <<"Accept-Encoding: gzip">>, <<ContentLengthLine(1)>>}

RouteWires ==
    {RequestBytes(m, p, v, h, IF h = <<ContentLengthLine(1)>> THEN "a" ELSE "") :
        m \in RouteMethods, p \in RoutePaths, v \in RouteVersions, h \in RouteHeaders}

\* requests that exercise the request target and the header section
HeaderPaths ==
    {"/echo/ab", "/echo/a?b", "/echo/a/../b", "/echo/<b>", "/echo/", "/user-agent"}
HeaderSections ==
    {<<>>, <<"Accept-Encoding: gzip">>, <<"Accept-Encoding:  gzip ">>,
     <<"Accept-Encoding: identity">>, <<"Accept-Encoding: gzip, deflate">>,
     <<"accept-encoding: gzip">>, <<"Accept-Encoding: gzip: x">>,
     <<"Accept-Encoding: identity", "Accept-Encoding: gzip">>,
     <<"User-Agent: foobar/1.2.3">>, <<"User-Agent: a: b">>,
     <<"User-Agent: a", "User-Agent: b">>, <<"User-Agent:  u ">>,
     <<"Bad Name: v">>, <<"Content-Length: 0", "User-Agent: u">>}

HeaderWires ==
    {RequestBytes(m, p, "HTTP/1.1", h, "") :
        m \in {"GET", "POST"}, p \in HeaderPaths, h \in HeaderSections}

\* a POST of each of two bodies to one file, and a GET of that file
PostA == RequestBytes("POST", "/files/x", "HTTP/1.1", <<ContentLengthLine(1)>>, "a")
PostBC == RequestBytes("POST", "/files/x", "HTTP/1.1", <<ContentLengthLine(2)>>, "bc")
GetX == RequestBytes("GET", "/files/x", "HTTP/1.1", <<>>, "")
FileWires == {PostA, PostBC, GetX}

\* the files of tmpDir when the server starts
NoFiles == [name \in {} |-> ""]
FileSystems ==
    {NoFiles,
     [name \in {"x"} |-> "zz"],
     [name \in {"x", "a/x"} |-> IF name = "x" THEN "zz" ELSE "n"]}

(***************************************************************************)
(* Specifications.                                                         *)
(***************************************************************************)
\* the state after server.listen(): every connection callback has run up to
\* `await new Promise(...)`
Start ==
    /\ parser = [c \in Conns |-> ParserInit]
    /\ running = 0
    /\ parsedRequest = [c \in Conns |-> Undefined]
    /\ pc = [c \in Conns |-> "parse"]
    /\ req = [c \in Conns |-> Undefined]
    /\ res = [c \in Conns |-> Undefined]
    /\ out = [c \in Conns |-> ""]
    /\ ended = [c \in Conns |-> FALSE]
    /\ sinks = {}

\* one client; its bytes arrive cut anywhere, or it is one of the route
\* requests and arrives whole
Init ==
    /\ Start
    /\ fs \in FileSystems
    /\ \/ /\ \E w \in ParserWires : wire = [c \in Conns |-> IF c = 1 THEN w ELSE ""]
          /\ segmentation = [c \in Conns |-> "any"]
          /\ after = [c \in Conns |-> 0]
       \/ /\ \E w \in RouteWires \cup HeaderWires :
                wire = [c \in Conns |-> IF c = 1 THEN w ELSE ""]
          /\ segmentation = [c \in Conns |-> "whole"]
          /\ after = [c \in Conns |-> 0]

Spec == Init /\ [][Next]_vars

\* three clients of the /files/ routes, each request arriving whole; a
\* client may wait for the answer to an earlier one before it sends
InitFiles ==
    /\ Start
    /\ fs \in {NoFiles, [name \in {"x"} |-> "zz"]}
    /\ wire \in [Conns -> FileWires]
    /\ segmentation = [c \in Conns |-> "whole"]
    /\ after \in {f \in [Conns -> Conns \cup {0}] : \A c \in Conns : f[c] < c}

SpecFiles == InitFiles /\ [][Next]_vars

\* the event loop runs every callback that is ready
Fairness ==
    /\ \A c \in Conns : WF_vars(OnData(c)) /\ WF_vars(LoopStep(c)) /\ WF_vars(Driver(c))
    /\ \A c \in Conns : WF_vars(ExistsDone(c)) /\ WF_vars(TextDone(c))
    /\ WF_vars(\E sink \in sinks : Flush(sink))

\* client 1 stops before the end of its request, client 2 sends a complete one
InitTwo ==
    /\ Start
    /\ fs = [name \in {"x"} |-> "zz"]
    /\ \E a \in PartialRequests, b \in {PostA, GetX} :
          wire = [c \in Conns |-> IF c = 1 THEN a ELSE IF c = 2 THEN b ELSE ""]
    /\ segmentation = [c \in Conns |-> IF c = 1 THEN "any" ELSE "whole"]
    /\ after = [c \in Conns |-> 0]

SpecTwo == InitTwo /\ [][Next]_vars /\ Fairness

(***************************************************************************)
(* The properties.                                                         *)
(***************************************************************************)
\* the 'data' callback applied to one chunk that holds all of w: the value
\* it resolves the promise with, or undefined when it returns, or never
\* returns, without resolving
RECURSIVE RunLoop(_)
RunLoop(p) ==
    IF p.cursor < Len(p.data)
    THEN LET q == LoopBody(p)
         IN  IF IsComplete(q) THEN Some(Resolution(q))
             ELSE IF q = p THEN Undefined
             ELSE RunLoop(q)
    ELSE Undefined

OneChunk(w) == RunLoop([ParserInit EXCEPT !.data = w])

\* the callback of c is in its loop and another pass changes something
Progresses(c) == ENABLED <<LoopStep(c)>>_vars

\* C1: the 'data' callback returns after finitely many passes of its loop,
\* whatever the parser state and the chunk: while the callback of a
\* connection is executing, its next pass either returns or changes the
\* parser state (a pass that changes nothing repeats for ever).
C1_CallbackReturns == \A c \in Conns : running = c => Progresses(c)

\* C2: a connection that has sent only part of a request never keeps
\* another connection from being answered: connection 2, whose client sends
\* a complete valid request, is eventually answered and closed while
\* connection 1 stays incomplete.
C2_OtherConnectionAnswered == <>(out[2] # "" /\ ended[2])

\* C3: the parsed request does not depend on the chunking: for a complete
\* request, however its bytes are cut into chunks, the parser completes
\* (the callback never stays in its loop) and, once every byte has been
\* processed, the promise holds the head, header lines and body that the
\* whole request arriving as one chunk gives.
C3_ChunkingIndependent ==
    \A c \in Conns :
        (wire[c] \in CompleteRequests /\ OneChunk(wire[c]) # Undefined) =>
            /\ running = c => Progresses(c)
            /\ (Unread(c) = "" /\ running # c) => parsedRequest[c] = OneChunk(wire[c])

\* the Content-Length a client declares, 0 when it declares none
DeclaredLength(w) ==
    LET i == IndexOf(w, "Content-Length: ", 0)
    IN  IF i = -1 THEN 0 ELSE DigitsValue(SliceFrom(w, i + Len("Content-Length: ")), 0)

\* the first DeclaredLength bytes after the blank line that ends the headers
DeclaredBody(w) ==
    LET start == IndexOf(w, "\r\n\r\n", 0) + 4
    IN  Slice(w, start, start + DeclaredLength(w))

\* C4: when the parser completes, the body is exactly the first len bytes
\* after the blank line, len being the Content-Length value (CR LF inside
\* the body kept, bytes beyond len left out), and empty without a
\* Content-Length header.
C4_BodyIsDeclaredBytes ==
    \A c \in Conns :
        (wire[c] \in LengthRequests \cup PlainRequests /\ parsedRequest[c] # Undefined) =>
            parsedRequest[c][1].body = DeclaredBody(wire[c])

\* the two transport-level rejections, as written to the socket
Rejection405 == "HTTP/1.1 405 Method Not Allowed\r\n\r\n"
Rejection505 == "HTTP/1.1 505 HTTP Version Not Supported\r\n\r\n"

\* a request line that fails the method check, or passes it and fails the
\* version check
BadMethod(head) == RequestLine(head).method \notin {"GET", "POST", "PUT", "DELETE"}
BadVersion(head) == ~BadMethod(head) /\ RequestLine(head).httpVersion # Some("HTTP/1.1")

C6_TransportRejection ==
    \A c \in Conns :
        (parsedRequest[c] # Undefined /\ pc[c] # "parse") =>
            /\ BadMethod(parsedRequest[c][1].head) =>
                  (out[c] = Rejection405 /\ ended[c] /\ pc[c] = "closed"
                      /\ req[c] = Undefined /\ res[c] = Undefined)
            /\ BadVersion(parsedRequest[c][1].head) =>
                  (out[c] = Rejection505 /\ ended[c] /\ pc[c] = "closed"
                      /\ req[c] = Undefined /\ res[c] = Undefined)

\* an allowed method with another version was answered 505
C6_Witness ==
    \E c \in Conns :
        /\ parsedRequest[c] # Undefined
        /\ BadVersion(parsedRequest[c][1].head)
        /\ out[c] = Rejection505

\* the clients that POST to /files/x
IsPost(c) == wire[c] \in {PostA, PostBC}

\* C7: once the 201 for POST /files/x with body b has been sent, a GET
\* /files/x issued afterwards, with no other POST to that name, returns 200
\* with body exactly b and Content-Type application/octet-stream: where p is
\* the only client that posts and the client g sends its GET after p's
\* connection was closed, the response to g is that one.
C7_WriteVisibleAfter201 ==
    \A p \in Conns, g \in Conns :
        (/\ IsPost(p)
         /\ \A o \in Conns \ {p} : wire[o] = GetX
         /\ after[g] = p
         /\ res[g] # Undefined) =>
            /\ res[g][1].status = 200
            /\ res[g][1].body = DeclaredBody(wire[p])
            /\ res[g][1].headers["content-type"] = "application/octet-stream"

\* C8: last write wins: POST b1 answered, then POST b2 sent and answered,
\* then GET sent: the GET returns exactly b2.
C8_LastWriteWins ==
    \A p1 \in Conns, p2 \in Conns, g \in Conns :
        (/\ IsPost(p1) /\ IsPost(p2) /\ wire[p1] # wire[p2]
         /\ wire[g] = GetX
         /\ after[p2] = p1 /\ after[g] = p2
         /\ res[g] # Undefined) =>
            (res[g][1].status = 200 /\ res[g][1].body = DeclaredBody(wire[p2]))

\* the request reached the handler with a /files/ path whose remainder
\* holds a separator
IsTraversal(r) ==
    /\ r.method \in {"GET", "POST"}
    /\ StartsWith(r.pathname, "/files/")
    /\ \/ Includes(SliceFrom(r.pathname, Len("/files/")), "/")
       \/ Includes(SliceFrom(r.pathname, Len("/files/")), "\\")

IsPlainRoute(pathname) ==
    pathname = "/" \/ StartsWith(pathname, "/echo/") \/ pathname = "/user-agent"

\* C10 as stated: the routes /, /echo/<text> and /user-agent answer 200
\* only to GET, and a POST to one of them is answered 404 with an empty body.
C10_RoutesGetOnly ==
    \A c \in Conns :
        (req[c] # Undefined /\ res[c] # Undefined /\ IsPlainRoute(req[c][1].pathname)) =>
            /\ res[c][1].status = 200 => req[c][1].method = "GET"
            /\ req[c][1].method = "POST" => (res[c][1].status = 404 /\ res[c][1].body = "")

\* C10 as amended: the routes /, /echo/<text> and /user-agent answer 200 to
\* GET and to POST alike, and a GET or POST whose path is none of these and
\* does not start with /files/ is answered 404 with an empty body.
C10_RoutesAnyMethod ==
    \A c \in Conns :
        (req[c] # Undefined /\ res[c] # Undefined /\ req[c][1].method \in {"GET", "POST"}) =>
            /\ IsPlainRoute(req[c][1].pathname) => res[c][1].status = 200
            /\ (~IsPlainRoute(req[c][1].pathname) /\ ~StartsWith(req[c][1].pathname, "/files/")) =>
                  (res[c][1].status = 404 /\ res[c][1].body = "")

\* a POST to / was answered 200
C10_Witness ==
    \E c \in Conns :
        /\ req[c] # Undefined /\ res[c] # Undefined
        /\ req[c][1].method = "POST" /\ req[c][1].pathname = "/"
        /\ res[c][1].status = 200

\* the connection callback has resumed on the parsed request of c
Resumed(c) == parsedRequest[c] # Undefined /\ pc[c] # "parse"

\* the request line of the parsed request of c
ParsedLine(c) == RequestLine(parsedRequest[c][1].head)

\* C11: a PUT or DELETE request with version HTTP/1.1 passes the transport
\* check and, handed to the handler, is answered by it with status 405 and
\* an empty body whatever its path, also a path of a GET or POST route: no
\* transport rejection is written, no file operation is started, and the
\* connection is closed.  (The handler is not reached only where building
\* the Request throws.)
C11_HandlerRejectsPutDelete ==
    \A c \in Conns :
        (Resumed(c) /\ ParsedLine(c).method \in {"PUT", "DELETE"}
                    /\ ParsedLine(c).httpVersion = Some("HTTP/1.1")) =>
            /\ out[c] \notin {Rejection405, Rejection505}
            /\ req[c] = Undefined => pc[c] = "fault"
            /\ req[c] # Undefined =>
                  /\ res[c] # Undefined /\ pc[c] = "closed" /\ ended[c]
                  /\ res[c][1].status = 405 /\ res[c][1].body = ""
                  /\ StartsWith(out[c], "HTTP/1.1 405 \r\n")
                  /\ SliceFrom(out[c], Len(out[c]) - 4) = "\r\n\r\n"
                  /\ sinks = {} /\ fs \in FileSystems

\* a DELETE of a path that GET answers 200 was answered 405 by the handler
C11_Witness ==
    \E c \in Conns :
        /\ Resumed(c) /\ ParsedLine(c).method = "DELETE"
        /\ req[c] # Undefined /\ req[c][1].pathname = "/echo/ab"
        /\ res[c] # Undefined /\ res[c][1].status = 405

\* a header line as the client sent it: its name is what precedes the first
\* colon-space, its value all that follows it
LineName(line) ==
    LET i == IndexOf(line, ": ", 0) IN IF i = -1 THEN line ELSE Slice(line, 0, i)
LineValue(line) ==
    LET i == IndexOf(line, ": ", 0) IN IF i = -1 THEN Undefined ELSE Some(SliceFrom(line, i + 2))

\* the last of the lines that carries the header name (in lower case)
RECURSIVE LastLine(_, _)
LastLine(lines, name) ==
    IF lines = <<>> THEN Undefined
    ELSE IF ToLowerCase(LineName(lines[Len(lines)])) = name THEN Some(lines[Len(lines)])
    ELSE LastLine(SubSeq(lines, 1, Len(lines) - 1), name)

\* the value the client sent for the header name, undefined when it sent none
SentValue(lines, name) ==
    IF LastLine(lines, name) = Undefined THEN Undefined ELSE LineValue(LastLine(lines, name)[1])

\* the GET request of c reached the handler on the path /echo/<text> and
\* was answered
EchoAnswered(c) ==
    /\ Resumed(c) /\ req[c] # Undefined /\ res[c] # Undefined
    /\ req[c][1].method = "GET"
    /\ StartsWith(ParsedLine(c).requestPath[1], "/echo/")

\* C12: GET /echo/<text> without an Accept-Encoding header returns status
\* 200, a body equal to text, the whole remainder of the request path after
\* /echo/, and a Content-Length equal to the length of text.  (The request
\* path is taken to end where a query or a fragment begins.)
C12_EchoReturnsText ==
    \A c \in Conns :
        (EchoAnswered(c)
            /\ SentValue(parsedRequest[c][1].rawHeaders, "accept-encoding") = Undefined) =>
            LET target == ParsedLine(c).requestPath[1]
                text == Slice(target, Len("/echo/"), FirstOf(target, {"?", "#"}))
            IN  /\ res[c][1].status = 200
                /\ res[c][1].body = text
                /\ res[c][1].headers["content-length"] = NumToString(Len(text))

\* the response of c is the compressed text, announced as such
Compressed(c, text) ==
    /\ res[c][1].body = GzipSync(text)
    /\ HeadersGet(res[c][1].headers, "Content-Encoding") = Some("gzip")
    /\ Includes(out[c], "content-encoding: gzip\r\n")
    /\ SliceFrom(out[c], Len(out[c]) - Len(GzipSync(text)) - 4) = "\r\n\r\n" \o GzipSync(text)

\* the response of c is the text as it is, with no Content-Encoding
Verbatim(c, text) ==
    /\ res[c][1].body = text
    /\ HeadersGet(res[c][1].headers, "Content-Encoding") = Undefined
    /\ ~Includes(out[c], "content-encoding")
    /\ SliceFrom(out[c], Len(out[c]) - Len(text) - 4) = "\r\n\r\n" \o text

\* the text the /echo/ route works on
EchoText(c) == SliceFrom(req[c][1].pathname, Len("/echo/"))

UpToDelimiter(v) ==
    LET i == IndexOf(v, ": ", 0) IN IF i = -1 THEN v ELSE Slice(v, 0, i)

\* the value the request's header mapping holds for the header name: that of
\* the last line with the name, cut at the next colon-space, without the
\* white space around it; "undefined" for a line that has the name only
StoredValue(lines, name) ==
    IF LastLine(lines, name) = Undefined THEN Undefined
    ELSE IF SentValue(lines, name) = Undefined THEN Some("undefined")
    ELSE Some(NormalizeValue(UpToDelimiter(SentValue(lines, name)[1])))

C14_UserAgentEchoed ==
    \A c \in Conns :
        (Resumed(c) /\ req[c] # Undefined /\ res[c] # Undefined
            /\ req[c][1].method = "GET" /\ req[c][1].pathname = "/user-agent") =>
            LET sent == SentValue(parsedRequest[c][1].rawHeaders, "user-agent")
            IN  /\ res[c][1].status = 200
                /\ res[c][1].body = IF sent = Undefined THEN "" ELSE NormalizeValue(sent[1])

\* C15: every response of the handler is serialized with a Content-Type and
\* a Content-Length header: the Content-Type is text/plain unless the handler
\* set one (application/octet-stream for a file that GET /files/ found), and
\* the Content-Length is the number of body bytes written after the blank
\* line.
C15_DefaultHeaders ==
    \A c \in Conns :
        res[c] # Undefined =>
            LET r == res[c][1]
                fileFound == /\ req[c][1].method = "GET"
                             /\ StartsWith(req[c][1].pathname, "/files/")
                             /\ r.status = 200
            IN  /\ {"content-type", "content-length"} \subseteq DOMAIN r.headers
                /\ r.headers["content-type"] =
                      IF fileFound THEN "application/octet-stream" ELSE "text/plain"
                /\ r.headers["content-length"] = NumToString(Len(r.body))
                /\ Includes(out[c], "content-type: " \o r.headers["content-type"] \o "\r\n")
                /\ Includes(out[c], "content-length: " \o r.headers["content-length"] \o "\r\n")
                /\ SliceFrom(out[c], Len(out[c]) - Len(r.body) - 4) = "\r\n\r\n" \o r.body

\* C16: once the connection callback has run to its end on a completely
\* received request (it is not waiting for a file), one response has been
\* written and the socket ended; and what a socket has received is never
\* more than one response, whatever bytes arrive after the request.
C16_OneResponseThenClose ==
    \A c \in Conns :
        /\ (Resumed(c) /\ pc[c] \notin {"exists", "text"}) => (out[c] # "" /\ ended[c])
        /\ out[c] # "" =>
              /\ ended[c]
              /\ \/ out[c] \in {Rejection405, Rejection505}
                 \/ res[c] # Undefined /\ out[c] = Serialize("HTTP/1.1", res[c][1])

\* the three characters after "HTTP/1.1 " in what was written to c
WrittenStatus(c) == Slice(out[c], Len("HTTP/1.1 "), Len("HTTP/1.1 ") + 3)

\* C17: the status code of every response written to any connection is one
\* of 200, 201, 404, 405 and 505.
C17_StatusCodes ==
    \A c \in Conns :
        /\ out[c] # "" =>
              /\ StartsWith(out[c], "HTTP/1.1 ")
              /\ WrittenStatus(c) \in {"200", "201", "404", "405", "505"}
              /\ CharAt(out[c], Len("HTTP/1.1 ") + 3) = " "
        /\ res[c] # Undefined =>
              /\ res[c][1].status \in {200, 201, 404, 405}
              /\ WrittenStatus(c) = NumToString(res[c][1].status)

\* a traversal attempt on /files/ was answered, with 404
C17_Witness ==
    \E c \in Conns :
        /\ req[c] # Undefined /\ IsTraversal(req[c][1])
        /\ WrittenStatus(c) = "404"

\* C18: a header line is split at its first colon-space only: the value the
\* handler sees for a header is all that follows the first colon-space of
\* the (last) line with that name, taken without the white space around it.
C18_SplitAtFirstDelimiter ==
    \A c \in Conns :
        req[c] # Undefined =>
            \A name \in DOMAIN req[c][1].headers :
                LET sent == SentValue(parsedRequest[c][1].rawHeaders, name)
                IN  sent # Undefined => req[c][1].headers[name] = NormalizeValue(sent[1])

\* the header lines of a request that holds its blank line
SentHeaderLines(w) ==
    LET first == IndexOf(w, "\r\n", 0)
        blank == IndexOf(w, "\r\n\r\n", 0)
    IN  IF blank = first THEN <<>> ELSE Split(Slice(w, first + 2, blank), "\r\n")

\* C19: the parser never completes before it has read the blank line that
\* ends the headers, whatever the Content-Length: the resolved request
\* holds every header line that precedes the blank line.
C19_CompleteAfterBlankLine ==
    \A c \in Conns :
        parsedRequest[c] # Undefined =>
            /\ parser[c].endOfHeaders
            /\ IndexOf(wire[c], "\r\n\r\n", 0) # -1 =>
                  parsedRequest[c][1].rawHeaders = SentHeaderLines(wire[c])

\* the request line of the parsed request of c has fewer than three tokens
ShortLine(c) == Len(Split(parsedRequest[c][1].head, " ")) < 3

\* C20: a request line with fewer than three space-separated tokens is
\* never handed to the handler: once the connection callback has resumed,
\* it has been answered 405 where the first token is not GET, POST, PUT or
\* DELETE, and 505 otherwise, and the connection closed; the method is
\* checked before the version, so a line that fails both gets 405.
C20_ShortRequestLine ==
    \A c \in Conns :
        /\ (Resumed(c) /\ ShortLine(c)) =>
              /\ req[c] = Undefined /\ res[c] = Undefined
              /\ pc[c] = "closed" /\ ended[c]
              /\ out[c] = IF ParsedLine(c).method \in {"GET", "POST", "PUT", "DELETE"}
                          THEN Rejection505 ELSE Rejection405
        /\ (Resumed(c) /\ ParsedLine(c).method \notin {"GET", "POST", "PUT", "DELETE"}
                       /\ ParsedLine(c).httpVersion # Some("HTTP/1.1")) =>
              out[c] = Rejection405

\* a request line made of an allowed method and a path was answered 505
C20_Witness ==
    \E c \in Conns :
        /\ Resumed(c) /\ ShortLine(c)
        /\ ParsedLine(c).method = "GET" /\ ParsedLine(c).requestPath = Some("/")
        /\ out[c] = Rejection505

====
